---- MODULE Spec2Model ----
(***************************************************************************)
(* Model of the BNPL analytics agent orchestration in                      *)
(* src/agents/src/graph.py: the rotating credential pool                    *)
(* (get_next_api_key, rotate_api_key), the cached backend handle (get_llm), *)
(* the compiled pipeline graph (create_agent_graph, get_agent) with its     *)
(* conditional validator -> executor edge (should_retry), and the outer     *)
(* retry loop of run_query.                                                 *)
(*                                                                          *)
(* AgentState and the five node classes live in modules that graph.py       *)
(* imports (.state, .nodes); what the model needs of them is taken from     *)
(* the written specification and marked as such where it is defined.        *)
(***************************************************************************)
EXTENDS Integers, Sequences, FiniteSets, TLC

\* ---------------------------------------------------------------- bounds

\* Longest backup list explored (the list in the source holds 3 keys).
MaxBackupKeys == 3

\* Largest AgentState.max_retries explored.
MaxRetries == 2

\* The run_query calls that may exist, and the one caller of Spec, which
\* awaits each call before it makes the next.
Queries == {"q1", "q2"}
Caller == "q1"

\* ---------------------------------------------------------------- values

\* Python's None, wherever a credential, a verdict or an answer may be None.
None == <<"None", 0>>

\* os.getenv("GOOGLE_API_KEY") when it is set.
EnvKeyValue == <<"env", 0>>

\* os.getenv("OPENAI_API_KEY") when it is set.
OpenAIKeyValue == <<"openai", 0>>

\* The i-th entry (1-based) of BACKUP_API_KEYS.
BackupKey(i) == <<"backup", i>>

\* _llm_instance = None
NoLLM == [provider |-> "none", key |-> None]

\* _agent_graph = None
NoGraph == [compiled |-> FALSE, llm |-> NoLLM, nodes |-> {}]

\* No pool function has been called directly yet.
NoCall == [name |-> "none", index |-> 0, ret |-> None]

Nodes == {"router", "planner", "executor", "validator", "narrator"}

VARIABLES
    \* process configuration
    BACKUP_API_KEYS,     \* the in-source list of backup credentials
    env_key,             \* TRUE iff GOOGLE_API_KEY is set
    gemini_installed,    \* TRUE iff langchain_google_genai imports
    openai_ready,        \* TRUE iff OPENAI_API_KEY is set and langchain_openai imports
    default_max_retries, \* AgentState's default for max_retries
    \* module globals of graph.py
    current_key_index,   \* _current_key_index
    llm_instance,        \* _llm_instance
    agent_graph,         \* _agent_graph
    \* one run_query call per query
    pc,                  \* where the call is
    attempt,             \* the loop variable of run_query
    agent,               \* the local `agent` of the current attempt
    state,               \* the execution record of the current attempt
    caught,              \* the exception `e` inside run_query's except clause
    result,              \* what the call returned, or the exception it raised
    \* history of the current call, for stating the claims
    pre_index,           \* _current_key_index when the call started
    rotations,           \* rotate_api_key calls made by this call
    keys_used,           \* the credential of each outer attempt, in order
    index_trace,         \* _current_key_index before and after each rotation
    executes,            \* executor runs in the current attempt
    narrates,            \* narrator runs in the current attempt
    retry_edges,         \* validator -> executor firings in the current attempt
    verdicts,            \* the validator's verdicts in the current attempt
    \* the pool functions called directly, outside run_query
    last_call            \* the last such call: its name, the index it found, its result

config == <<BACKUP_API_KEYS, env_key, gemini_installed, openai_ready,
           default_max_retries>>
globals == <<current_key_index, llm_instance, agent_graph>>
locals == <<pc, attempt, agent, state, caught, result>>
history == <<pre_index, rotations, keys_used, index_trace,
             executes, narrates, retry_edges, verdicts>>
vars == <<config, globals, locals, history, last_call>>

\* ------------------------------------------------- failures and their text

\* The failures a stage may surface, by name; str(e) is ErrorText(e).
BackendErrors == {"TooManyRequests", "QuotaExceeded", "RateLimit",
                  "ResourceExhausted", "ResourceExhaustedClass", "DeadlineExceeded"}
LocalErrors == {"FileNotFound"}
Errors == BackendErrors \cup LocalErrors

ErrorText(e) ==
    CASE e = "TooManyRequests" -> <<"4", "2", "9">>
      [] e = "QuotaExceeded" -> <<"Q", "u", "o", "t", "a", " ", "e", "x", "c", "e", "e", "d", "e", "d">>
      [] e = "RateLimit" -> <<"R", "a", "t", "e", " ", "L", "i", "m", "i", "t", " ", "h", "i", "t">>
      [] e = "ResourceExhausted" -> <<"R", "E", "S", "O", "U", "R", "C", "E", " ", "E", "X", "H", "A", "U", "S", "T", "E", "D">>
      [] e = "ResourceExhaustedClass" -> <<"R", "e", "s", "o", "u", "r", "c", "e", "E", "x", "h", "a", "u", "s", "t", "e", "d">>
      [] e = "DeadlineExceeded" -> <<"D", "e", "a", "d", "l", "i", "n", "e">>
      [] e = "FileNotFound" -> <<"N", "o", " ", "s", "u", "c", "h", " ", "f", "i", "l", "e">>
      [] e = "ZeroDivisionError" -> <<"m", "o", "d", "u", "l", "o", " ", "b", "y", " ", "z", "e", "r", "o">>

UpperChars == <<"A", "B", "C", "D", "E", "F", "G", "H", "I", "J", "K", "L", "M", "N", "O", "P", "Q", "R", "S", "T", "U", "V", "W", "X", "Y", "Z">>
LowerChars == <<"a", "b", "c", "d", "e", "f", "g", "h", "i", "j", "k", "l", "m", "n", "o", "p", "q", "r", "s", "t", "u", "v", "w", "x", "y", "z">>

\* str.lower() on one character.
lower_char(c) ==
    IF \E i \in DOMAIN UpperChars : UpperChars[i] = c
    THEN LowerChars[CHOOSE i \in DOMAIN UpperChars : UpperChars[i] = c]
    ELSE c

\* str.lower()
lower(s) == [i \in 1..Len(s) |-> lower_char(s[i])]

\* term in s, for strings
contains(term, s) ==
    \E i \in 0..(Len(s) - Len(term)) : SubSeq(s, i + 1, i + Len(term)) = term

\* The throttling keywords of run_query.
RateLimitTerms == {<<"r", "a", "t", "e", " ", "l", "i", "m", "i", "t">>,
                   <<"q", "u", "o", "t", "a">>,
                   <<"4", "2", "9">>,
                   <<"r", "e", "s", "o", "u", "r", "c", "e", " ", "e", "x", "h", "a", "u", "s", "t", "e", "d">>}

\* The test without the .lower(): the keywords matched against str(e) as it is.
is_rate_limited_case_sensitive(e) ==
    LET error_msg == ErrorText(e)
    IN \E term \in RateLimitTerms : contains(term, error_msg)

\* An except clause that takes every failure for a rate limit.
is_rate_limited_any(e) == TRUE

\* The test of run_query's except clause on the caught exception e.
is_rate_limited(e) ==
    LET error_msg == lower(ErrorText(e))
    IN \E term \in RateLimitTerms : contains(term, error_msg)

\* The failures that run_query takes for a rate limit.
RateLimitErrors == {e \in Errors : is_rate_limited(e)}

\* ------------------------------------------------------- credential pool
\* The functions of graph.py read and write module globals.  Here each takes
\* the globals as a record g = [index, llm, graph] and gives back its return
\* value together with the globals it leaves, so that run_query can chain
\* several of them inside one step.

Globals == [index |-> current_key_index, llm |-> llm_instance, graph |-> agent_graph]

\* get_next_api_key(): the credential for index, and the index it leaves.
get_next_api_key(index) ==
    IF env_key /\ index = 0
    THEN [ret |-> EnvKeyValue, index |-> index]
    ELSE LET backup_index == IF env_key THEN index - 1 ELSE index
         IN IF 0 <= backup_index /\ backup_index < Len(BACKUP_API_KEYS)
            THEN [ret |-> BACKUP_API_KEYS[backup_index + 1], index |-> index]
            ELSE [ret |-> IF Len(BACKUP_API_KEYS) > 0
                          THEN BACKUP_API_KEYS[1] ELSE None,
                  index |-> IF env_key THEN 1 ELSE 0]

\* max_keys of rotate_api_key.
max_keys == Len(BACKUP_API_KEYS) + (IF env_key THEN 1 ELSE 0)

\* rotate_api_key() divides by max_keys.
rotate_raises == max_keys = 0

\* rotate_api_key without the `_llm_instance = None`.
rotate_api_key_keeps_handle(g) ==
    [g EXCEPT !.index = (g.index + 1) % max_keys]

\* rotate_api_key with the pool size taken as in run_query: one more than
\* the backup list, whether or not the environment key is set.
rotate_api_key_fixed_size(g) ==
    [g EXCEPT !.index = (g.index + 1) % (Len(BACKUP_API_KEYS) + 1), !.llm = NoLLM]

\* rotate_api_key() when it does not raise.
rotate_api_key(g) ==
    [g EXCEPT !.index = (g.index + 1) % max_keys, !.llm = NoLLM]

\* get_llm(): the handle returned (NoLLM for None) and the globals left.
get_llm(g) ==
    IF g.llm # NoLLM
    THEN [ret |-> g.llm, g |-> g]
    ELSE LET k == get_next_api_key(g.index)
             g1 == [g EXCEPT !.index = k.index]
             gemini == [provider |-> "gemini", key |-> k.ret]
             openai == [provider |-> "openai", key |-> OpenAIKeyValue]
         IN IF k.ret # None /\ gemini_installed
            THEN [ret |-> gemini, g |-> [g1 EXCEPT !.llm = gemini]]
            ELSE IF openai_ready
            THEN [ret |-> openai, g |-> [g1 EXCEPT !.llm = openai]]
            ELSE [ret |-> NoLLM, g |-> g1]

\* ------------------------------------------------------- pipeline graph

\* should_retry with the comparison off by one.
should_retry_le(s) ==
    IF s.validation # None /\ s.validation[1] = "retry_needed"
       /\ s.retry_count <= s.max_retries
    THEN "executor"
    ELSE "narrator"

\* should_retry that loops on any verdict, whether or not it asks for a retry.
should_retry_any_verdict(s) ==
    IF s.validation # None /\ s.retry_count < s.max_retries
    THEN "executor"
    ELSE "narrator"

\* should_retry without the bound on retry_count.
should_retry_unbounded(s) ==
    IF s.validation # None /\ s.validation[1] = "retry_needed"
    THEN "executor"
    ELSE "narrator"

\* should_retry(state): the conditional edge out of the validator.
should_retry(s) ==
    IF s.validation # None /\ s.validation[1] = "retry_needed"
       /\ s.retry_count < s.max_retries
    THEN "executor"
    ELSE "narrator"

\* A graph whose executor is wired straight to the narrator.
next_node_skips_validator(node, s) ==
    CASE node = "router" -> "planner"
      [] node = "planner" -> "executor"
      [] node = "executor" -> "narrator"
      [] node = "validator" -> should_retry(s)
      [] node = "narrator" -> "END"

\* The edges of the compiled graph: the node that follows `node`.
next_node(node, s) ==
    CASE node = "router" -> "planner"
      [] node = "planner" -> "executor"
      [] node = "executor" -> "validator"
      [] node = "validator" -> should_retry(s)
      [] node = "narrator" -> "END"

\* create_agent_graph(): five nodes bound to the handle get_llm() gives.
create_agent_graph(g) ==
    LET l == get_llm(g)
    IN [ret |-> [compiled |-> TRUE, llm |-> l.ret, nodes |-> Nodes], g |-> l.g]

\* get_agent() without the `global _agent_graph`: the graph it builds is
\* handed to the caller and never kept.
get_agent_keeps_nothing(g) ==
    IF g.graph = NoGraph
    THEN LET c == create_agent_graph(g)
         IN [ret |-> c.ret, g |-> c.g]
    ELSE [ret |-> g.graph, g |-> g]

\* get_agent(): the singleton, built on first use.
get_agent(g) ==
    IF g.graph = NoGraph
    THEN LET c == create_agent_graph(g)
         IN [ret |-> c.ret, g |-> [c.g EXCEPT !.graph = c.ret]]
    ELSE [ret |-> g.graph, g |-> g]

\* ------------------------------------------------------ execution record

\* From the written specification: what a stage of outer attempt a leaves
\* in the field it owns.
Written(a) == <<"written", a>>

\* final_response values: the empty string, a narrated text of attempt a.
Empty == <<"", 0>>
Text(a) == <<"text", a>>
\* A mapping that holds no "final_response" key.
Absent == <<"absent", 0>>
\* The two literals of run_query.
Placeholder == <<"No response generated", 0>>
Sentinel == <<"Error: All API keys exhausted. Please try again later.", 0>>

\* AgentState(user_query=query, session_id=session_id): every other field
\* at its default.  The defaults are from the written specification (the
\* class is in .state): retry_count 0, the stages' fields unset.
AgentState(query, session_id) ==
    [user_query |-> query, session_id |-> session_id,
     intent |-> None, plan |-> None, execution |-> None,
     validation |-> None, final_response |-> None,
     retry_count |-> 0, max_retries |-> default_max_retries]

\* From the written specification (the code is in .nodes/.state): the retry
\* edge counts itself, retry_count is incremented each time it fires.
bump_retry(s) == [s EXCEPT !.retry_count = @ + 1]

\* From the written specification: the failures a node may surface, those of
\* the backend only when the node holds a handle (without one it works in
\* its rule-based mode and can fail only in its own work).
StageFailures(llm) == IF llm = NoLLM THEN LocalErrors ELSE Errors

\* From the written specification: what the validator may leave in
\* state.validation in attempt a (should_retry allows for None).
Verdicts(a) == {None, <<"retry_needed", a>>, <<"ok", a>>}

\* From the written specification: what the narrator may leave in
\* state.final_response in attempt a (run_query allows for None and "").
Narrations(a) == {None, Empty, Text(a)}

\* The terminal record ainvoke hands back for record s: a mapping (which
\* may lack the key of a field that is None) or a record object.
FinalStates(s) ==
    {[form |-> "dict", final_response |-> s.final_response],
     [form |-> "object", final_response |-> s.final_response]}
    \cup (IF s.final_response = None
          THEN {[form |-> "dict", final_response |-> Absent]} ELSE {})

\* ------------------------------------------------------------- run_query

\* max_retries of run_query: the outer attempt budget.
run_query_max_retries == Len(BACKUP_API_KEYS) + 1

\* The value run_query returns for the terminal record final_state.
run_query_return(final_state) ==
    IF final_state.form = "dict"
    THEN IF final_state.final_response = Absent
         THEN Placeholder ELSE final_state.final_response
    ELSE IF final_state.final_response \in {None, Empty}
         THEN Placeholder ELSE final_state.final_response

Returned(v) == [kind |-> "return", value |-> v]
Raised(e) == [kind |-> "raise", value |-> <<e, 0>>]
Pending == [kind |-> "pending", value |-> None]

Running(q) == pc[q] \in Nodes

TypeOK ==
    /\ current_key_index \in 0..(MaxBackupKeys + 1)
    /\ pc \in [Queries -> Nodes \cup {"idle", "except", "returned", "raised"}]
    /\ caught \in [Queries -> Errors \cup {"none"}]
    /\ attempt \in [Queries -> 0..(MaxBackupKeys + 1)]

\* The process as imported, nothing called yet, with a backup list of one
\* of the given lengths.
InitWith(lengths) ==
    /\ BACKUP_API_KEYS \in {[i \in 1..n |-> BackupKey(i)] : n \in lengths}
    /\ env_key \in BOOLEAN
    /\ gemini_installed \in BOOLEAN
    /\ openai_ready \in BOOLEAN
    /\ default_max_retries \in 0..MaxRetries
    /\ current_key_index = 0
    /\ llm_instance = NoLLM
    /\ agent_graph = NoGraph
    /\ pc = [q \in Queries |-> "idle"]
    /\ attempt = [q \in Queries |-> 0]
    /\ agent = [q \in Queries |-> NoGraph]
    /\ state = [q \in Queries |-> AgentState(q, q)]
    /\ caught = [q \in Queries |-> "none"]
    /\ result = [q \in Queries |-> Pending]
    /\ pre_index = [q \in Queries |-> 0]
    /\ rotations = [q \in Queries |-> 0]
    /\ keys_used = [q \in Queries |-> <<>>]
    /\ index_trace = [q \in Queries |-> <<>>]
    /\ executes = [q \in Queries |-> 0]
    /\ narrates = [q \in Queries |-> 0]
    /\ retry_edges = [q \in Queries |-> 0]
    /\ verdicts = [q \in Queries |-> <<>>]
    /\ last_call = NoCall

\* The backup list holds at least one key, as the list in the source does.
Init == InitWith(1..MaxBackupKeys)

\* The backup list may also be empty.
InitAnyPool == InitWith(0..MaxBackupKeys)

SetGlobals(g) ==
    /\ current_key_index' = g.index
    /\ llm_instance' = g.llm
    /\ agent_graph' = g.graph

\* An iteration that builds the record once, before the loop, and hands the
\* same record to every graph run.
BeginAttempt_shared_record(q, g, n) ==
    LET a == get_agent(g)
    IN /\ SetGlobals(a.g)
       /\ agent' = [agent EXCEPT ![q] = a.ret]
       /\ state' = [state EXCEPT ![q] = IF n = 0 THEN AgentState(q, q) ELSE @]
       /\ attempt' = [attempt EXCEPT ![q] = n]
       /\ pc' = [pc EXCEPT ![q] = "router"]
       /\ keys_used' = [keys_used EXCEPT
                          ![q] = Append(IF n = 0 THEN <<>> ELSE @, a.ret.llm.key)]
       /\ executes' = [executes EXCEPT ![q] = 0]
       /\ narrates' = [narrates EXCEPT ![q] = 0]
       /\ retry_edges' = [retry_edges EXCEPT ![q] = 0]
       /\ verdicts' = [verdicts EXCEPT ![q] = <<>>]

\* One iteration of run_query's loop up to the await: get_agent(), a fresh
\* AgentState, and the graph entered at its entry point.
BeginAttempt(q, g, n) ==
    LET a == get_agent(g)
    IN /\ SetGlobals(a.g)
       /\ agent' = [agent EXCEPT ![q] = a.ret]
       /\ state' = [state EXCEPT ![q] = AgentState(q, q)]
       /\ attempt' = [attempt EXCEPT ![q] = n]
       /\ pc' = [pc EXCEPT ![q] = "router"]
       /\ keys_used' = [keys_used EXCEPT
                          ![q] = Append(IF n = 0 THEN <<>> ELSE @, a.ret.llm.key)]
       /\ executes' = [executes EXCEPT ![q] = 0]
       /\ narrates' = [narrates EXCEPT ![q] = 0]
       /\ retry_edges' = [retry_edges EXCEPT ![q] = 0]
       /\ verdicts' = [verdicts EXCEPT ![q] = <<>>]

\* A run_query that starts every call from the first credential: index 0
\* and empty caches.
Enter_resets_rotation(q) ==
    /\ BeginAttempt(q, [index |-> 0, llm |-> NoLLM, graph |-> NoGraph], 0)
    /\ result' = [result EXCEPT ![q] = Pending]
    /\ UNCHANGED caught
    /\ pre_index' = [pre_index EXCEPT ![q] = current_key_index]
    /\ rotations' = [rotations EXCEPT ![q] = 0]
    /\ index_trace' = [index_trace EXCEPT ![q] = <<current_key_index>>]
    /\ UNCHANGED <<config, last_call>>

\* run_query(query, session_id) is entered and runs to its first await.
Enter(q) ==
    /\ BeginAttempt(q, Globals, 0)
    /\ result' = [result EXCEPT ![q] = Pending]
    /\ UNCHANGED caught
    /\ pre_index' = [pre_index EXCEPT ![q] = current_key_index]
    /\ rotations' = [rotations EXCEPT ![q] = 0]
    /\ index_trace' = [index_trace EXCEPT ![q] = <<current_key_index>>]
    /\ UNCHANGED <<config, last_call>>

\* run_query is called while no other call is in progress: the caller
\* awaits each call before the next.
Call(q) ==
    /\ \A p \in Queries : pc[p] = "idle"
    /\ Enter(q)

\* run_query is called as a task of its own, whatever the other calls are
\* doing; the event loop runs it to its first await.
Submit(q) ==
    /\ pc[q] = "idle"
    /\ Enter(q)

\* A graph run that looks up the process-wide compiled graph again at every
\* stage boundary instead of keeping the one its attempt started on.
StageDone_on_current_graph(q, next, s) ==
    /\ state' = [state EXCEPT ![q] = s]
    /\ pc' = [pc EXCEPT ![q] = next]
    /\ agent' = [agent EXCEPT ![q] = IF agent_graph # NoGraph THEN agent_graph ELSE @]
    /\ UNCHANGED <<config, globals, attempt, caught, result,
                   pre_index, rotations, keys_used, index_trace, narrates,
                   last_call>>

\* A node before the narrator completes, leaving record s, and the graph
\* moves along the edge to node `next`.
StageDone(q, next, s) ==
    /\ state' = [state EXCEPT ![q] = s]
    /\ pc' = [pc EXCEPT ![q] = next]
    /\ UNCHANGED <<config, globals, attempt, agent, caught, result,
                   pre_index, rotations, keys_used, index_trace, narrates,
                   last_call>>

Router(q) ==
    /\ pc[q] = "router"
    /\ LET s == [state[q] EXCEPT !.intent = Written(attempt[q])]
       IN StageDone(q, next_node("router", s), s)
    /\ UNCHANGED <<executes, retry_edges, verdicts>>

Planner(q) ==
    /\ pc[q] = "planner"
    /\ LET s == [state[q] EXCEPT !.plan = Written(attempt[q])]
       IN StageDone(q, next_node("planner", s), s)
    /\ UNCHANGED <<executes, retry_edges, verdicts>>

Executor(q) ==
    /\ pc[q] = "executor"
    /\ LET s == [state[q] EXCEPT !.execution = Written(attempt[q])]
       IN StageDone(q, next_node("executor", s), s)
    /\ executes' = [executes EXCEPT ![q] = @ + 1]
    /\ UNCHANGED <<retry_edges, verdicts>>

\* The validator writes its verdict; should_retry picks the edge, and the
\* retry edge increments retry_count before the executor runs again.
Validator(q) ==
    /\ pc[q] = "validator"
    /\ \E v \in Verdicts(attempt[q]) :
        LET s == [state[q] EXCEPT !.validation = v]
            next == next_node("validator", s)
            retry == next = "executor"
        IN /\ StageDone(q, next, IF retry THEN bump_retry(s) ELSE s)
           /\ retry_edges' = [retry_edges EXCEPT ![q] = IF retry THEN @ + 1 ELSE @]
           /\ verdicts' = [verdicts EXCEPT ![q] = Append(@, v[1])]
    /\ UNCHANGED executes

\* The narrator writes the final answer, the graph ends, ainvoke hands the
\* terminal record back and run_query returns.
Narrator(q) ==
    /\ pc[q] = "narrator"
    /\ \E text \in Narrations(attempt[q]) :
        LET s == [state[q] EXCEPT !.final_response = text]
        IN /\ next_node("narrator", s) = "END"
           /\ state' = [state EXCEPT ![q] = s]
           /\ \E final_state \in FinalStates(s) :
                result' = [result EXCEPT ![q] = Returned(run_query_return(final_state))]
    /\ pc' = [pc EXCEPT ![q] = "returned"]
    /\ narrates' = [narrates EXCEPT ![q] = @ + 1]
    /\ UNCHANGED <<config, globals, attempt, agent, caught, pre_index, rotations,
                   keys_used, index_trace, executes, retry_edges, verdicts,
                   last_call>>

\* A node raises: ainvoke lets the failure through and run_query's except
\* clause catches it as e.
Raise(q) ==
    /\ Running(q)
    /\ \E e \in StageFailures(agent[q].llm) : caught' = [caught EXCEPT ![q] = e]
    /\ pc' = [pc EXCEPT ![q] = "except"]
    /\ UNCHANGED <<config, globals, attempt, agent, state, result, history,
                   last_call>>

\* The caught failure reads as a rate limit: rotate the key, drop the
\* compiled graph, and go round the loop again, or fall out of the loop with
\* the exhaustion message.
RateLimited(q) ==
    /\ pc[q] = "except"
    /\ caught[q] \in RateLimitErrors
    /\ caught' = [caught EXCEPT ![q] = "none"]
    /\ IF rotate_raises
       THEN /\ pc' = [pc EXCEPT ![q] = "raised"]
            /\ result' = [result EXCEPT ![q] = Raised("ZeroDivisionError")]
            /\ UNCHANGED <<globals, attempt, agent, state, history>>
       ELSE LET g == [rotate_api_key(Globals) EXCEPT !.graph = NoGraph]
            IN /\ rotations' = [rotations EXCEPT ![q] = @ + 1]
               /\ index_trace' = [index_trace EXCEPT ![q] = Append(@, g.index)]
               /\ UNCHANGED pre_index
               /\ IF attempt[q] + 1 < run_query_max_retries
                  THEN /\ BeginAttempt(q, g, attempt[q] + 1)
                       /\ UNCHANGED result
                  ELSE /\ SetGlobals(g)
                       /\ pc' = [pc EXCEPT ![q] = "returned"]
                       /\ result' = [result EXCEPT ![q] = Returned(Sentinel)]
                       /\ UNCHANGED <<attempt, agent, state, keys_used,
                                      executes, narrates, retry_edges, verdicts>>
    /\ UNCHANGED <<config, last_call>>

\* Any other failure: run_query re-raises it.
Reraise(q) ==
    /\ pc[q] = "except"
    /\ caught[q] \notin RateLimitErrors
    /\ result' = [result EXCEPT ![q] = Raised(caught[q])]
    /\ caught' = [caught EXCEPT ![q] = "none"]
    /\ pc' = [pc EXCEPT ![q] = "raised"]
    /\ UNCHANGED <<config, globals, attempt, agent, state, history, last_call>>

\* The caller takes the value (or the exception) and the call's frame is gone.
Return(q) ==
    /\ pc[q] \in {"returned", "raised"}
    /\ pc' = [pc EXCEPT ![q] = "idle"]
    /\ attempt' = [attempt EXCEPT ![q] = 0]
    /\ agent' = [agent EXCEPT ![q] = NoGraph]
    /\ state' = [state EXCEPT ![q] = AgentState(q, q)]
    /\ result' = [result EXCEPT ![q] = Pending]
    /\ UNCHANGED caught
    /\ pre_index' = [pre_index EXCEPT ![q] = 0]
    /\ rotations' = [rotations EXCEPT ![q] = 0]
    /\ keys_used' = [keys_used EXCEPT ![q] = <<>>]
    /\ index_trace' = [index_trace EXCEPT ![q] = <<>>]
    /\ executes' = [executes EXCEPT ![q] = 0]
    /\ narrates' = [narrates EXCEPT ![q] = 0]
    /\ retry_edges' = [retry_edges EXCEPT ![q] = 0]
    /\ verdicts' = [verdicts EXCEPT ![q] = <<>>]
    /\ UNCHANGED <<config, globals, last_call>>

Step(q) ==
    \/ Router(q)
    \/ Planner(q)
    \/ Executor(q)
    \/ Validator(q)
    \/ Narrator(q)
    \/ Raise(q)
    \/ RateLimited(q)
    \/ Reraise(q)
    \/ Return(q)

Next == Call(Caller) \/ Step(Caller)

Spec == Init /\ [][Next]_vars

\* Spec, with backup lists down to the empty one.
SpecAnyPool == InitAnyPool /\ [][Next]_vars

\* Spec, where a call in progress keeps taking steps: every stage invocation
\* ends (in a result or a failure) and the event loop resumes the call.
LiveSpec == Spec /\ \A q \in Queries : WF_vars(Step(q))

\* ------------------------------------------------------ concurrent calls
\* The hosting process may have several run_query calls in progress on one
\* event loop.  A call is suspended only inside `await agent.ainvoke(...)`,
\* at a stage boundary; everything between two suspensions runs without
\* interruption, which is what one action of a call is.

\* Longest backup list explored with two calls in progress.
MaxConcKeys == 1

\* The process as imported, with the Gemini client installed and no
\* fallback key, and records that allow no inner retry (the inner loop is
\* local to a call and shares nothing).
ConcInit ==
    /\ InitWith(1..MaxConcKeys)
    /\ gemini_installed
    /\ ~openai_ready
    /\ default_max_retries = 0

\* The failures explored with two calls in progress: one that reads as a
\* rate limit and one that does not.
ConcErrors == {"TooManyRequests", "DeadlineExceeded"}

\* The stages that fail with two calls in progress: the first and the last.
ConcFailing == {"router", "narrator"}

\* From a failure to the next await a call runs without suspension: no
\* other call takes a step while one is in its except clause.
Unblocked(q) == \A p \in Queries \ {q} : pc[p] # "except"

\* The event loop starts the call q.
ConcSubmit(q) == Unblocked(q) /\ Submit(q)

\* The event loop resumes the call q for a step, only the stages of
\* ConcFailing failing and only in the ways of ConcErrors, the validator
\* content, the narrator giving a text.
ConcStep(q) ==
    /\ Unblocked(q)
    /\ Step(q)
    /\ caught'[q] \in ConcErrors \cup {"none"}
    /\ (pc[q] \in Nodes /\ pc'[q] = "except") => pc[q] \in ConcFailing
    /\ state'[q].validation \in {None, <<"ok", attempt'[q]>>}
    /\ state'[q].final_response \in {None, Text(attempt'[q])}
    /\ result'[q].value \notin {Placeholder}

ConcNext == \E q \in Queries : ConcSubmit(q) \/ ConcStep(q)

ConcSpec == ConcInit /\ [][ConcNext]_vars

\* ------------------------------------------- the pool functions on their own
\* get_next_api_key, rotate_api_key and get_llm are module-level functions:
\* the hosting process may call them directly, in any order, between
\* run_query calls.  Each of them reads os.getenv("GOOGLE_API_KEY") anew.

\* No run_query call is in progress.
Quiet == \A q \in Queries : pc[q] = "idle"

\* get_next_api_key() is called.
PoolCurrent ==
    /\ Quiet
    /\ LET k == get_next_api_key(current_key_index)
       IN /\ current_key_index' = k.index
          /\ last_call' = [name |-> "get_next_api_key",
                           index |-> current_key_index, ret |-> k.ret]
    /\ UNCHANGED <<config, llm_instance, agent_graph, locals, history>>

\* rotate_api_key() is called; with no key at all it raises on the modulo.
PoolAdvance ==
    /\ Quiet
    /\ IF rotate_raises
       THEN /\ last_call' = [name |-> "rotate_api_key",
                             index |-> current_key_index,
                             ret |-> <<"ZeroDivisionError", 0>>]
            /\ UNCHANGED globals
       ELSE /\ SetGlobals(rotate_api_key(Globals))
            /\ last_call' = [name |-> "rotate_api_key",
                             index |-> current_key_index, ret |-> None]
    /\ UNCHANGED <<config, locals, history>>

\* get_llm() is called; the call is recorded with the credential of the
\* handle it returns.
PoolGetLLM ==
    /\ Quiet
    /\ LET l == get_llm(Globals)
       IN /\ SetGlobals(l.g)
          /\ last_call' = [name |-> "get_llm",
                           index |-> current_key_index, ret |-> l.ret.key]
    /\ UNCHANGED <<config, locals, history>>

\* GOOGLE_API_KEY is set or removed in the process environment.
SetEnv ==
    /\ Quiet
    /\ env_key' = ~env_key
    /\ last_call' = [name |-> "environ", index |-> current_key_index, ret |-> None]
    /\ UNCHANGED <<BACKUP_API_KEYS, gemini_installed, openai_ready,
                   default_max_retries, globals, locals, history>>

PoolNext == PoolCurrent \/ PoolAdvance \/ PoolGetLLM

\* The pool functions called in any order, the environment as it was at
\* import.
PoolSpec == InitAnyPool /\ [][PoolNext]_vars

PoolEnvNext == PoolCurrent \/ PoolAdvance \/ PoolGetLLM \/ SetEnv

\* The same, where the environment may change between two calls.
PoolEnvSpec == InitAnyPool /\ [][PoolEnvNext]_vars

\* ---------------------------------------------------------------- claims

\* The call q is inside an outer attempt (a graph run is in progress or has
\* just ended in the narrator).
InAttempt(q) == pc[q] \in Nodes \/ (pc[q] = "returned" /\ narrates[q] = 1)

\* How many of the verdicts in v asked for a retry.
NumRetry(v) == Cardinality({i \in DOMAIN v : v[i] = "retry_needed"})

Min(a, b) == IF a <= b THEN a ELSE b

PoolKeys ==
    {BACKUP_API_KEYS[i] : i \in DOMAIN BACKUP_API_KEYS}
    \cup (IF env_key THEN {EnvKeyValue} ELSE {})

\* C2: a call whose every outer attempt is throttled returns the exhaustion
\* message, raises nothing, and has rotated the pool exactly pool-size
\* times, so that the index is back where it was when the call started.
C2_ExhaustionRestoresIndex ==
    \A q \in Queries :
        /\ (pc[q] = "returned" /\ result[q] = Returned(Sentinel)
            /\ \A i \in DOMAIN keys_used[q] : keys_used[q][i] \in PoolKeys)
              => /\ rotations[q] = max_keys
                 /\ current_key_index = pre_index[q]
        /\ (pc[q] = "raised") => result[q].value[1] \notin RateLimitErrors

\* Failures that carry no throttling signal at all.
NonThrottling == {"DeadlineExceeded", "FileNotFound"}

\* C3: a non-throttling failure caught in any outer attempt is re-raised to
\* the caller at once: no rotation, no change to the index or the caches,
\* no further attempt, and a call that has raised does nothing more.
C3_NonThrottlingPropagates ==
    [][\A q \in Queries :
        /\ (pc[q] = "except" /\ pc'[q] # "except" /\ caught[q] \in NonThrottling)
              => /\ pc'[q] = "raised"
                 /\ result'[q] = Raised(caught[q])
                 /\ UNCHANGED globals
                 /\ attempt'[q] = attempt[q]
                 /\ rotations'[q] = rotations[q]
        /\ (pc[q] = "raised") => pc'[q] \in {"raised", "idle"}]_vars

\* C3 witness: a non-throttling failure on the second outer attempt has
\* been raised to the caller, with the one rotation of the first attempt.
C3_Witness ==
    \E q \in Queries :
        /\ pc[q] = "raised"
        /\ result[q] = Raised("DeadlineExceeded")
        /\ attempt[q] = 1
        /\ rotations[q] = 1

\* Every field of record s is unset or was written in outer attempt a.
FieldsFrom(s, a) ==
    /\ s.intent \in {None, Written(a)}
    /\ s.plan \in {None, Written(a)}
    /\ s.execution \in {None, Written(a)}
    /\ s.validation \in Verdicts(a)
    /\ s.final_response \in Narrations(a)

\* C4: the second outer attempt, after a throttled first one, starts from a
\* fresh record (query and session only, retry_count 0, nothing else set),
\* sees no field written in the first attempt, follows exactly one
\* rotation, and the answer returned is that of the second attempt's record.
C4_SecondAttemptIsFresh ==
    \A q \in Queries :
        /\ (pc[q] = "router") => state[q] = AgentState(q, q)
        /\ (InAttempt(q) /\ attempt[q] = 1)
              => /\ rotations[q] = 1
                 /\ FieldsFrom(state[q], 1)
                 /\ state[q].user_query = q /\ state[q].session_id = q
        /\ (pc[q] = "returned" /\ narrates[q] = 1 /\ attempt[q] = 1)
              => /\ result[q].value \in {Text(1), Placeholder, None, Empty}
                 /\ (state[q].final_response = Text(1))
                       => result[q] = Returned(Text(1))

\* C4 witness: the first attempt was throttled after it had written fields,
\* and the second attempt's narrated answer has been returned.
C4_Witness ==
    \E q \in Queries :
        /\ pc[q] = "returned"
        /\ attempt[q] = 1
        /\ rotations[q] = 1
        /\ state[q].execution = Written(1)
        /\ result[q] = Returned(Text(1))

\* C5: each rotation moves the index one step modulo the pool size, the
\* index stays inside the pool, and pool-size rotations in a row bring it
\* back to where it started.
C5_RotationCyclic ==
    \A q \in Queries :
        LET t == index_trace[q]
            n == max_keys
        IN /\ \A i \in DOMAIN t : 0 <= t[i] /\ t[i] < n
           /\ \A i \in 1..(Len(t) - 1) : t[i + 1] = (t[i] + 1) % n
           /\ (Len(t) > n) => t[n + 1] = t[1]

\* C5 witness: with the environment key set, a run of pool-size rotations
\* that started from an index other than 0.
C5_Witness ==
    \E q \in Queries :
        /\ env_key
        /\ Len(BACKUP_API_KEYS) >= 2
        /\ Len(index_trace[q]) = max_keys + 1
        /\ index_trace[q][1] # 0

C7_OneAttemptPerCredential ==
    \A q \in Queries :
        (\A i \in DOMAIN keys_used[q] : keys_used[q][i] \in PoolKeys)
           => /\ Len(keys_used[q]) <= max_keys
              /\ \A i, j \in DOMAIN keys_used[q] :
                    (i # j) => keys_used[q][i] # keys_used[q][j]

\* C8: whatever run_query returns is a non-empty text: a narrated answer,
\* the placeholder, or the exhaustion message; never None or "".
C8_ReturnsNonEmptyText ==
    \A q \in Queries :
        (pc[q] = "returned") => result[q].value \notin {None, Empty, Absent}

\* No credential anywhere: no environment key, an empty backup list, no
\* fallback key.
NoBackend == ~env_key /\ Len(BACKUP_API_KEYS) = 0 /\ ~openai_ready

\* C9: with no backend configured get_llm gives no handle, the graph is
\* still compiled with its five nodes, and a call ends in a non-empty
\* answer; the only failures raised are those of a stage's own work.
C9_NoBackendStillAnswers ==
    NoBackend =>
        /\ llm_instance = NoLLM
        /\ (agent_graph # NoGraph)
              => (agent_graph.nodes = Nodes /\ agent_graph.llm = NoLLM)
        /\ \A q \in Queries :
              /\ (pc[q] = "raised") => result[q].value[1] \in LocalErrors
              /\ (pc[q] = "returned")
                    => result[q].value \in {Placeholder, Text(attempt[q])}

\* C9 witness: no backend, the five-node graph compiled without a handle,
\* and a call that went through the narrator has returned its text.
C9_Witness ==
    \E q \in Queries :
        /\ NoBackend
        /\ agent_graph.nodes = Nodes /\ agent_graph.llm = NoLLM
        /\ pc[q] = "returned" /\ narrates[q] = 1
        /\ result[q] = Returned(Text(0))

\* The call q has not yet handed a value or a failure to its caller.
InProgress(q) == pc[q] \in Nodes \cup {"except"}

\* How far the graph run of q is from its end, at most: the narrator is one
\* step away, each executor/validator pair still allowed costs two.
StageRank(q) ==
    LET k == state[q].max_retries
        left == k - state[q].retry_count
    IN CASE pc[q] = "router" -> 2 * k + 6
         [] pc[q] = "planner" -> 2 * k + 5
         [] pc[q] = "executor" -> 2 * left + 4
         [] pc[q] = "validator" -> 2 * left + 3
         [] pc[q] = "narrator" -> 2
         [] pc[q] = "except" -> 1
         [] OTHER -> 0

\* A bound on the steps the call q can still take: the outer attempts left,
\* each worth a whole graph run, and the rest of the current one.
Rank(q) ==
    (run_query_max_retries - attempt[q] - 1) * (2 * state[q].max_retries + 7)
    + StageRank(q)

C10_EventuallyFinishes ==
    \A q \in Queries : InProgress(q) ~> (pc[q] \in {"returned", "raised"})

C11_EnvKeyOnlyAtStart ==
    [][(/\ env_key
        /\ Len(BACKUP_API_KEYS) > 0
        /\ last_call.name = "rotate_api_key"
        /\ PoolCurrent)
          => /\ last_call'.ret # EnvKeyValue
             /\ (last_call.index = Len(BACKUP_API_KEYS))
                   => last_call'.ret = BACKUP_API_KEYS[1]]_vars

\* C12: after any sequence of get_next_api_key() and rotate_api_key()
\* calls, with the environment key re-read by each call and any backup
\* list, the index lies inside the pool and get_next_api_key() has returned
\* a credential of the pool.
C12_IndexInsidePool ==
    (last_call.name # "none")
       => /\ 0 <= current_key_index
          /\ current_key_index < max_keys
          /\ (last_call.name = "get_next_api_key") => last_call.ret \in PoolKeys

\* The pool in index order as a call reads it: the environment key, if
\* set, then the backup keys.
PoolSeq == (IF env_key THEN <<EnvKeyValue>> ELSE <<>>) \o BACKUP_API_KEYS

\* The credential at index i (None where the pool holds nothing there).
KeyAt(i) == IF 0 <= i /\ i < Len(PoolSeq) THEN PoolSeq[i + 1] ELSE None

\* C13: get_next_api_key() is a pure read: it returns the credential at the
\* index, leaves the index and the cached handle as they were, would return
\* the same credential if called again, and does not change where a later
\* rotate_api_key() leaves the index.
C13_CurrentIsPure ==
    [][PoolCurrent
         => /\ last_call'.ret = KeyAt(current_key_index)
            /\ current_key_index' = current_key_index
            /\ llm_instance' = llm_instance
            /\ get_next_api_key(current_key_index').ret = last_call'.ret
            /\ rotate_raises
                 \/ rotate_api_key(Globals)'.index = rotate_api_key(Globals).index]_vars

\* C14: every change of the index, by rotate_api_key() or otherwise, leaves
\* the handle cache empty or holding a handle built from the credential at
\* the new index; so a cached handle of the pool is never one built for an
\* earlier index.  (A fallback handle is built from no credential of the
\* pool and belongs to no index.)
C14_IndexChangeClearsCache ==
    [][(current_key_index' # current_key_index /\ llm_instance'.provider = "gemini")
         => llm_instance'.key = KeyAt(current_key_index)']_vars

\* The stage-to-stage moves of one graph run: the router, the planner, then
\* executor and validator in turn, then the narrator, then the end.
StageOrder(from, to) ==
    \/ from = "router" /\ to = "planner"
    \/ from = "planner" /\ to = "executor"
    \/ from = "executor" /\ to = "validator"
    \/ from = "validator" /\ to \in {"executor", "narrator"}
    \/ from = "narrator" /\ to = "returned"

\* C15: in one outer attempt the stages run one at a time in the order
\* router, planner, one or more executor/validator pairs, narrator.  An
\* attempt is entered at the router; a stage is followed by the next stage
\* of the order or by the failure of the attempt; the validator has run as
\* often as the executor whenever the executor is not the last to have run;
\* the narrator runs once, after a validator, and nothing runs after it.
C15_StagesInOrder ==
    /\ [](\A q \in Queries :
            /\ narrates[q] <= 1
            /\ (pc[q] \in {"router", "planner"})
                  => (executes[q] = 0 /\ Len(verdicts[q]) = 0)
            /\ (pc[q] = "validator") => executes[q] = Len(verdicts[q]) + 1
            /\ (pc[q] = "executor") => executes[q] = Len(verdicts[q])
            /\ (pc[q] = "narrator" \/ (pc[q] = "returned" /\ narrates[q] = 1))
                  => (executes[q] = Len(verdicts[q]) /\ executes[q] >= 1)
            /\ (pc[q] = "narrator") => narrates[q] = 0)
    /\ [][\A q \in Queries :
            /\ (pc[q] \notin Nodes /\ pc'[q] \in Nodes) => pc'[q] = "router"
            /\ (pc[q] \in Nodes /\ attempt'[q] # attempt[q]) => pc'[q] = "router"
            /\ (pc[q] \in Nodes /\ pc'[q] # pc[q])
                  => (StageOrder(pc[q], pc'[q]) \/ pc'[q] = "except")
            /\ (narrates'[q] = narrates[q] + 1)
                  => (pc[q] = "narrator" /\ pc'[q] = "returned")]_vars

\* C15 witness: a run with two executor/validator pairs has ended after its
\* narrator.
C15_Witness ==
    \E q \in Queries :
        /\ pc[q] = "returned"
        /\ narrates[q] = 1
        /\ executes[q] = 2
        /\ Len(verdicts[q]) = 2

\* The failures whose description, lower-cased, holds one of "rate limit",
\* "quota", "429", "resource exhausted": "429", "Quota exceeded",
\* "Rate Limit hit" and "RESOURCE EXHAUSTED"; not "ResourceExhausted",
\* "Deadline" or "No such file".
Throttling == {"TooManyRequests", "QuotaExceeded", "RateLimit", "ResourceExhausted"}

\* C16: when run_query leaves its except clause, the failure it caught has
\* been treated as throttling (one rotation, the compiled graph rebuilt for
\* a new outer attempt on a fresh record, or the exhaustion message when
\* the budget is spent) if its lower-cased description holds one of the
\* four keywords, and re-raised as it is, with no rotation and no further
\* attempt, if not; whichever stage raised it and in whichever attempt.
C16_ClassifiedByDescription ==
    [][\A q \in Queries :
        (pc[q] = "except" /\ pc'[q] # "except")
           => IF caught[q] \in Throttling
              THEN /\ rotations'[q] = rotations[q] + 1
                   /\ \/ /\ attempt[q] + 1 < run_query_max_retries
                         /\ pc'[q] = "router"
                         /\ attempt'[q] = attempt[q] + 1
                         /\ state'[q] = AgentState(q, q)
                         /\ agent_graph' # NoGraph
                         /\ agent'[q] = agent_graph'
                      \/ /\ attempt[q] + 1 = run_query_max_retries
                         /\ pc'[q] = "returned"
                         /\ result'[q] = Returned(Sentinel)
                         /\ agent_graph' = NoGraph
              ELSE /\ pc'[q] = "raised"
                   /\ result'[q] = Raised(caught[q])
                   /\ rotations'[q] = rotations[q]
                   /\ attempt'[q] = attempt[q]
                   /\ UNCHANGED globals]_vars

\* C16 witness: a failure whose description is "ResourceExhausted" (no
\* space: no keyword matches) was raised by a stage after the planner, in
\* the second outer attempt, and has been re-raised; the first attempt's
\* failure was taken for throttling.
C16_Witness ==
    \E q \in Queries :
        /\ pc[q] = "raised"
        /\ result[q] = Raised("ResourceExhaustedClass")
        /\ state[q].plan = Written(1)
        /\ attempt[q] = 1
        /\ rotations[q] = 1

\* C17: with calls interleaved on the shared pool, a call that returns the
\* exhaustion message has made an outer attempt with every credential of
\* the pool.
C17_ExhaustionTriedEveryKey ==
    \A q \in Queries :
        (pc[q] = "returned" /\ result[q] = Returned(Sentinel))
           => \A k \in PoolKeys : \E i \in DOMAIN keys_used[q] : keys_used[q][i] = k

\* C18: a rotation does not reach an attempt in progress.  From its start
\* to its end an outer attempt runs on the compiled graph and handle that
\* get_agent() gave it, whatever the other calls do to the index and the
\* caches meanwhile; an attempt that starts gets the process-wide graph of
\* that moment, whose handle was built from the credential at the index.
C18_RotationSparesInFlight ==
    /\ [](\A q \in Queries :
            (pc[q] \in Nodes)
               => /\ agent[q] # NoGraph
                  /\ agent[q].llm.key = keys_used[q][Len(keys_used[q])])
    /\ [][\A q \in Queries :
            /\ (pc[q] \in Nodes /\ attempt'[q] = attempt[q] /\ pc'[q] # "idle")
                  => agent'[q] = agent[q]
            /\ (pc'[q] = "router" /\ (pc[q] \notin Nodes \/ attempt'[q] # attempt[q]))
                  => /\ agent'[q] = agent_graph'
                     /\ agent'[q].llm = llm_instance'
                     /\ agent'[q].llm.key = KeyAt(current_key_index)']_vars

\* C18 witness: one call has rotated to the backup key and started its
\* second attempt on it, while the other call, started on the environment
\* key, has reached its narrator still on the environment key.
C18_Witness ==
    \E q, p \in Queries :
        /\ q # p
        /\ pc[q] = "narrator" /\ attempt[q] = 0
        /\ agent[q].llm.key = EnvKeyValue
        /\ pc[p] \in Nodes /\ attempt[p] = 1 /\ rotations[p] = 1
        /\ agent[p].llm.key = BackupKey(1)
        /\ current_key_index = 1
        /\ agent_graph = agent[p]

\* C19: with calls interleaved at stage boundaries the index and the two
\* caches are never torn.  A cached handle was built from the credential at
\* the index, a cached compiled graph is bound to the cached handle, and a
\* step that moves the index leaves both caches empty or rebuilt for the
\* new index.
C19_NoTornCaches ==
    /\ [](/\ (llm_instance # NoLLM)
                => llm_instance.key = KeyAt(current_key_index)
          /\ (agent_graph # NoGraph)
                => /\ agent_graph.llm = llm_instance
                   /\ agent_graph.llm.key = KeyAt(current_key_index))
    /\ [][(current_key_index' # current_key_index)
            => /\ llm_instance' = NoLLM
                  \/ llm_instance'.key = KeyAt(current_key_index)'
               /\ agent_graph' = NoGraph
                  \/ agent_graph'.llm.key = KeyAt(current_key_index)']_vars

\* C19 witness: two calls in progress have each rotated once, one after the
\* other; they run on different graphs, and the cached graph is the one
\* built for the index as it now stands.
C19_Witness ==
    \E q, p \in Queries :
        /\ q # p
        /\ pc[q] \in Nodes /\ rotations[q] = 1
        /\ pc[p] \in Nodes /\ rotations[p] = 1
        /\ agent[q] # agent[p]
        /\ agent_graph = agent[p]
        /\ agent_graph.llm.key = KeyAt(current_key_index)

\* C20: run_query never resets the rotation.  During and after a call that
\* has made r rotations the index is (index before the call + r) modulo the
\* pool size, however the call ends; and the call that follows leaves the
\* index where it finds it and makes its first attempt with the credential
\* at that index (or with the fallback handle, which is of no index).
C20_RotationOutlivesCall ==
    /\ [](\A q \in Queries :
            (pc[q] # "idle")
               => current_key_index = (pre_index[q] + rotations[q]) % max_keys)
    /\ [][\A q \in Queries :
            (pc[q] = "idle" /\ pc'[q] # "idle")
               => /\ current_key_index' = current_key_index
                  /\ pre_index'[q] = current_key_index
                  /\ attempt'[q] = 0
                  /\ Len(keys_used'[q]) = 1
                  /\ (agent'[q].llm.provider = "gemini")
                        => keys_used'[q][1] = KeyAt(current_key_index)]_vars

\* C20 witness: a call has started its first attempt on the second backup
\* key, where the rotations of earlier calls had left the index.
C20_Witness ==
    \E q \in Queries :
        /\ pc[q] = "router"
        /\ attempt[q] = 0
        /\ rotations[q] = 0
        /\ ~env_key
        /\ pre_index[q] = 1
        /\ current_key_index = 1
        /\ keys_used[q] = <<BackupKey(2)>>

\* A call leaves its except clause with a failure that reads as a rate limit.
ThrottledStep ==
    \E p \in Queries :
        pc[p] = "except" /\ pc'[p] # "except" /\ caught[p] \in Throttling

\* The call q starts an outer attempt.
AttemptStarts(q) ==
    pc'[q] = "router" /\ (pc[q] \notin Nodes \/ attempt'[q] # attempt[q])

\* C21: only a throttled outer attempt changes the shared state.  A step
\* that is not the handling of a throttling failure (a stage, a return, a
\* re-raised failure, the start of a call) leaves the index where it is and
\* a populated handle cache and graph cache as they are; it changes nothing
\* at all unless it is the start of a call that finds the graph cache
\* empty.  An outer attempt always runs on the cached graph, building it
\* only when the cache is empty, so the graph is built once after a
\* rotation and every later call reuses it until the next rotation.
C21_OnlyThrottlingChangesShared ==
    [][/\ ~ThrottledStep
            => /\ current_key_index' = current_key_index
               /\ (llm_instance # NoLLM) => llm_instance' = llm_instance
               /\ (agent_graph # NoGraph) => agent_graph' = agent_graph
               /\ (\A q \in Queries : ~AttemptStarts(q)) => UNCHANGED globals
       /\ \A q \in Queries :
            AttemptStarts(q)
               => /\ agent_graph' # NoGraph
                  /\ agent'[q] = agent_graph'
                  /\ (agent_graph # NoGraph /\ ~ThrottledStep)
                        => (agent'[q] = agent_graph /\ UNCHANGED globals)]_vars

\* C21 witness: a call whose first attempt was throttled has returned the
\* answer of its second attempt, and the shared state is still what the
\* rotation and the start of that attempt left: the index one step on, the
\* cached graph the one the attempt ran on, bound to the cached handle.
C21_Witness ==
    \E q \in Queries :
        /\ pc[q] = "returned"
        /\ narrates[q] = 1
        /\ attempt[q] = 1
        /\ rotations[q] = 1
        /\ max_keys > 1
        /\ current_key_index = (pre_index[q] + 1) % max_keys
        /\ agent_graph = agent[q]
        /\ agent_graph.llm = llm_instance
        /\ llm_instance.provider = "gemini"

====
